---- MODULE Spec2Model ----
(***************************************************************************)
(* Session cart, checkout and online-payment verification of the           *)
(* storefront application (src/storefront/views.py).                       *)
(*                                                                         *)
(* Strings that the code parses, formats or strips are sequences of        *)
(* one-character strings ("12" is <<"1","2">>, "" is <<>>); enumerations   *)
(* (payment methods, template names, messages) are plain strings.          *)
(* Decimal amounts with two places are integers counting hundredths.       *)
(* Python dicts are functions; {} is the function with empty domain.       *)
(* The messages framework and the HTML rendering are not modelled beyond   *)
(* the message text and the template context handed to them; the           *)
(* UserProfile table (the saved shipping address) is left out, checkout    *)
(* requests are taken with a blank address field.                          *)
(***************************************************************************)
EXTENDS Integers, Sequences, FiniteSets, TLC

VARIABLES
    session,        \* request.session: dict from session keys to values
    authenticated,  \* request.user.is_authenticated for this visitor
    catalog,        \* Product table: id -> [price, is_active]
    settings,       \* django.conf.settings entries the views read
    remote_orders,  \* number of orders created at the payment gateway
    last,           \* the last request handled and the response it got
    inflight        \* the requests being handled concurrently, per browser tab

vars == <<session, authenticated, catalog, settings, remote_orders, last, inflight>>

(***************************************************************************)
(* Bounds of the model.                                                    *)
(***************************************************************************)
MaxQuantity == 2        \* add_to_cart is not taken beyond this stored quantity
MaxRemoteOrders == 2    \* orders the gateway creates in one behaviour

ProductIds == {1, 2}    \* product ids of the catalog and of the URLs requested
Togglable == {1}        \* products whose is_active the staff edits
Deletable == {2}        \* products the staff deletes

(***************************************************************************)
(* Python dict and string primitives used by the views.                    *)
(***************************************************************************)
EmptyDict == [k \in {} |-> 0]

dict_get(d, k, default) == IF k \in DOMAIN d THEN d[k] ELSE default

dict_set(d, k, v) == [x \in (DOMAIN d) \cup {k} |-> IF x = k THEN v ELSE d[x]]

dict_del_nothing(d, k) == d

dict_del(d, k) == [x \in (DOMAIN d) \ {k} |-> d[x]]

Digits == <<"0", "1", "2", "3", "4", "5", "6", "7", "8", "9">>

IsDigit(c) == \E d \in 1..10 : Digits[d] = c

DigitVal(c) == (CHOOSE d \in 1..10 : Digits[d] = c) - 1

RECURSIVE str(_)
str(n) ==
    IF n < 0 THEN <<"-">> \o str(-n)
    ELSE IF n < 10 THEN <<Digits[n + 1]>>
    ELSE Append(str(n \div 10), Digits[(n % 10) + 1])

RECURSIVE ParseDigits(_)
ParseDigits(s) ==
    IF Len(s) = 0 THEN 0
    ELSE ParseDigits(SubSeq(s, 1, Len(s) - 1)) * 10 + DigitVal(s[Len(s)])

\* int(s) raises ValueError exactly when s is no integer literal
IsIntLiteral(s) ==
    LET body == IF Len(s) > 0 /\ s[1] = "-" THEN Tail(s) ELSE s
    IN  Len(body) > 0 /\ \A i \in 1..Len(body) : IsDigit(body[i])

int(s) == IF s[1] = "-" THEN 0 - ParseDigits(Tail(s)) ELSE ParseDigits(s)

RECURSIVE lstrip(_)
lstrip(s) == IF Len(s) > 0 /\ s[1] = " " THEN lstrip(Tail(s)) ELSE s

RECURSIVE rstrip(_)
rstrip(s) ==
    IF Len(s) > 0 /\ s[Len(s)] = " " THEN rstrip(SubSeq(s, 1, Len(s) - 1)) ELSE s

strip(s) == rstrip(lstrip(s))

\* Python's `a or b` on strings
Or(a, b) == IF Len(a) = 0 THEN b ELSE a

\* str(Decimal) and Decimal(str) for amounts with two decimal places
DecimalStr(amount) ==
    str(amount \div 100) \o <<".">>
        \o <<Digits[((amount % 100) \div 10) + 1], Digits[(amount % 10) + 1]>>

Decimal(s) ==
    LET dot == CHOOSE i \in 1..Len(s) : s[i] = "."
    IN  int(SubSeq(s, 1, dot - 1)) * 100 + int(SubSeq(s, dot + 1, Len(s)))

(***************************************************************************)
(* Module constants of views.py and the logged-in user.                    *)
(***************************************************************************)
CART_SESSION_KEY == "cart"

PENDING_PAYMENT_SESSION_KEY == "pending_online_payment"

PAYMENT_METHODS ==
    [cod |-> "Cash on Delivery",
     online |-> "Online Payment (UPI / Debit Card / Credit Card)"]

\* request.user of the one visitor modelled: username, get_full_name(), email
User == [username |-> <<"u">>, full_name |-> <<>>, email |-> <<>>]

(***************************************************************************)
(* Requests and responses.                                                 *)
(***************************************************************************)
NoContext ==
    [items |-> <<>>, total |-> 0, customer_name |-> <<>>,
     payment_method_label |-> "", payment_id |-> <<>>,
     razorpay_order_id |-> <<>>, amount_subunits |-> 0]

Request(op, method, product_id, POST) ==
    [op |-> op, method |-> method, product_id |-> product_id, POST |-> POST]

\* outcome: the template rendered, the redirect target or the error status;
\* message: the flash message; modified: request.session.modified;
\* notifications: the calls of _send_order_notification; mails: the send_mail
\* calls; delivered: whether the mail transport accepted them
Response(outcome, message, modified, notifications, mails, delivered, context) ==
    [outcome |-> outcome, message |-> message, modified |-> modified,
     notifications |-> notifications, mails |-> mails, delivered |-> delivered,
     context |-> context]

Plain(outcome, message, modified) ==
    Response(outcome, message, modified, <<>>, <<>>, FALSE, NoContext)

(***************************************************************************)
(* Cart store: _get_cart, _save_cart.                                      *)
(***************************************************************************)
_get_cart(s) == dict_get(s, CART_SESSION_KEY, EmptyDict)

save_cart_alone(s, cart) == dict_set(EmptyDict, CART_SESSION_KEY, cart)

_save_cart(s, cart) == dict_set(s, CART_SESSION_KEY, cart)

(***************************************************************************)
(* Cart pricing: _build_cart_items.                                        *)
(***************************************************************************)
filter_ignoring_is_active(cat, product_ids) ==
    {id \in DOMAIN cat : id \in product_ids}

\* Product.objects.filter(id__in=product_ids, is_active=True): the matching rows
Product_objects_filter(cat, product_ids) ==
    {id \in DOMAIN cat : id \in product_ids /\ cat[id].is_active}

\* The orders in which the query set can deliver its rows (Meta.ordering is by
\* name, and names are not modelled: every order is possible)
QueryOrders(ids) ==
    {q \in [1..Cardinality(ids) -> ids] : \A i, j \in DOMAIN q : i # j => q[i] # q[j]}

RECURSIVE BuildLoopUnitQuantity(_, _, _, _, _)
BuildLoopUnitQuantity(cart, cat, products, items, total) ==
    IF Len(products) = 0 THEN [items |-> items, total |-> total]
    ELSE LET product == Head(products)
         IN  BuildLoopUnitQuantity(cart, cat, Tail(products),
                       Append(items, [product |-> product, quantity |-> 1,
                                      line_total |-> cat[product].price]),
                       total + cat[product].price)

RECURSIVE BuildLoop(_, _, _, _, _)
BuildLoop(cart, cat, products, items, total) ==
    IF Len(products) = 0 THEN [items |-> items, total |-> total]
    ELSE LET product == Head(products)
             quantity == dict_get(cart, str(product), 0)
             line_total == cat[product].price * quantity
         IN  BuildLoop(cart, cat, Tail(products),
                       Append(items, [product |-> product, quantity |-> quantity,
                                      line_total |-> line_total]),
                       total + line_total)

\* products: the rows of the query in the order the database returned them
_build_cart_items(cart, cat, products) ==
    IF DOMAIN cart = {} THEN [items |-> <<>>, total |-> 0]
    ELSE BuildLoop(cart, cat, products, <<>>, 0)

\* the query of line 47-48 for a cart
CartQuery(cart, cat) ==
    IF DOMAIN cart = {} THEN {<<>>}
    ELSE QueryOrders(Product_objects_filter(cat, {int(k) : k \in DOMAIN cart}))

(***************************************************************************)
(* Initial state: a fresh anonymous session, a seeded catalog, no profile  *)
(* row, any deployment settings.                                           *)
(***************************************************************************)
InitialPrice(id) == IF id % 2 = 1 THEN 10000 ELSE 5000

\* the browser tabs of the visitor that can have a request in flight
Tabs == {1, 2}

\* a tab with no request in flight. pc: the request's position in its view;
\* session: the request's own copy of the session data; preceded_by: the tabs
\* whose request had saved the session when this one loaded it
Idle ==
    [pc |-> "idle", product_id |-> 0, POST |-> EmptyDict, session |-> EmptyDict,
     preceded_by |-> {}, outcome |-> ""]

\* The deployments modelled: the gateway fully configured, or lacking exactly
\* one of key id, key secret and library; with and without a notify address
SettingsSpace ==
    {s \in [RAZORPAY_KEY_ID : {"", "rzp_key"},
            RAZORPAY_KEY_SECRET : {"", "rzp_secret"},
            razorpay : BOOLEAN,
            ORDER_NOTIFY_EMAIL : {"", "owner@shop"}] :
        Cardinality({x \in {"id", "secret", "lib"} :
            \/ x = "id" /\ s.RAZORPAY_KEY_ID = ""
            \/ x = "secret" /\ s.RAZORPAY_KEY_SECRET = ""
            \/ x = "lib" /\ ~s.razorpay}) <= 1}

Init ==
    /\ session = EmptyDict
    /\ authenticated = FALSE
    /\ catalog = [id \in ProductIds |-> [price |-> InitialPrice(id), is_active |-> TRUE]]
    /\ settings \in SettingsSpace
    /\ remote_orders = 0
    /\ last = [request |-> Request("start", "GET", 0, EmptyDict),
               response |-> Plain("", "", FALSE)]
    /\ inflight = [t \in Tabs |-> Idle]

(***************************************************************************)
(* add_to_cart, remove_from_cart, cart.                                    *)
(***************************************************************************)
Methods == {"GET", "POST"}

QuantityFields == {<<"-", "1">>, <<"0">>, <<"1">>, <<"2">>, <<"x">>}

AddPOSTs == {EmptyDict} \cup {[quantity |-> q] : q \in QuantityFields}

quantity_as_given(quantity) == quantity

\* lines 239-241: the quantity added for a parsed request value
coerce_quantity(quantity) == IF quantity < 1 THEN 1 ELSE quantity

cart_overwrite(cart, key, quantity) == dict_set(cart, key, quantity)

\* lines 243-245: the cart after the increment
cart_add(cart, key, quantity) == dict_set(cart, key, dict_get(cart, key, 0) + quantity)

found_if_exists(cat, product_id) == product_id \in DOMAIN cat

\* line 238: get_object_or_404(Product, id=product_id, is_active=True) finds a
\* row (TRUE) or raises Http404 (FALSE)
get_object_or_404(cat, product_id) ==
    product_id \in DOMAIN cat /\ cat[product_id].is_active

add_to_cart(method, product_id, POST) ==
    LET req == Request("add_to_cart", method, product_id, POST)
        found == get_object_or_404(catalog, product_id)
        raw == IF "quantity" \in DOMAIN POST THEN POST.quantity ELSE <<"1">>
        quantity == coerce_quantity(int(raw))
        cart == _get_cart(session)
        key == str(product_id)
        new_cart == cart_add(cart, key, quantity)
    IN  /\ UNCHANGED <<authenticated, catalog, settings, inflight, remote_orders>>
        /\ IF method # "POST"
           THEN /\ session' = session
                /\ last' = [request |-> req, response |-> Plain("status:405", "", FALSE)]
           ELSE IF ~found
           THEN /\ session' = session
                /\ last' = [request |-> req, response |-> Plain("status:404", "", FALSE)]
           ELSE IF ~IsIntLiteral(raw)
           THEN /\ session' = session
                /\ last' = [request |-> req, response |-> Plain("status:500", "", FALSE)]
           ELSE /\ new_cart[key] <= MaxQuantity
                /\ session' = _save_cart(session, new_cart)
                /\ last' = [request |-> req,
                            response |-> Plain("redirect:products", "Added to cart.", TRUE)]

in_cart_unchecked(key, cart) == TRUE

\* line 257: `if key in cart`
in_cart(key, cart) == key \in DOMAIN cart

remove_from_cart(method, product_id) ==
    LET req == Request("remove_from_cart", method, product_id, EmptyDict)
        cart == _get_cart(session)
        key == str(product_id)
    IN  /\ UNCHANGED <<authenticated, catalog, settings, inflight, remote_orders>>
        /\ IF method # "POST"
           THEN /\ session' = session
                /\ last' = [request |-> req, response |-> Plain("status:405", "", FALSE)]
           ELSE IF in_cart(key, cart)
           THEN /\ session' = _save_cart(session, dict_del(cart, key))
                /\ last' = [request |-> req,
                            response |-> Plain("redirect:cart", "Item removed from cart.", TRUE)]
           ELSE /\ session' = session
                /\ last' = [request |-> req, response |-> Plain("redirect:cart", "", FALSE)]

cart_view(products) ==
    LET cart_data == _get_cart(session)
        built == _build_cart_items(cart_data, catalog, products)
    IN  /\ products \in CartQuery(cart_data, catalog)
        /\ UNCHANGED <<session, authenticated, catalog, settings, inflight, remote_orders>>
        /\ last' = [request |-> Request("cart", "GET", 0, EmptyDict),
                    response |-> Response("render:storefront/cart.html", "", FALSE,
                                          <<>>, <<>>, FALSE,
                                          [NoContext EXCEPT !.items = built.items,
                                                            !.total = built.total])]

(***************************************************************************)
(* Payment gateway adapter and order notifier.                             *)
(***************************************************************************)
client_without_check(st) ==
    <<[auth |-> <<st.RAZORPAY_KEY_ID, st.RAZORPAY_KEY_SECRET>>]>>

\* None is <<>>, a client is <<[auth |-> ..]>>
_get_razorpay_client_of(st) ==
    LET key_id == st.RAZORPAY_KEY_ID
        key_secret == st.RAZORPAY_KEY_SECRET
    IN  IF key_id = "" \/ key_secret = "" \/ ~st.razorpay
        THEN <<>>
        ELSE <<[auth |-> <<key_id, key_secret>>]>>

_get_razorpay_client == _get_razorpay_client_of(settings)

\* the id the gateway gives the next order it creates
NextOrderId == <<"o">> \o str(remote_orders + 1)

\* the signature the gateway issues for a payment of an order (an HMAC of
\* "order_id|payment_id" under the key secret, kept symbolic)
hmac_sha256(order_id, payment_id) == <<"h">> \o order_id \o <<"|">> \o payment_id

accept_any_signature(params) == TRUE

\* client.utility.verify_payment_signature: TRUE when it returns, FALSE when it
\* raises SignatureVerificationError
verify_payment_signature(params) ==
    params.razorpay_signature
        = hmac_sha256(params.razorpay_order_id, params.razorpay_payment_id)

\* the send_mail calls one notifier call makes
_send_order_notification(customer_name, customer_email, total, payment_method, payment_id, username) ==
    LET notify_to == settings.ORDER_NOTIFY_EMAIL
    IN  IF notify_to = "" THEN <<>>
        ELSE <<[subject |-> customer_name,
                username |-> Or(username, <<"G", "u", "e", "s", "t">>),
                customer_email |-> Or(customer_email, <<"N", "/", "A">>),
                total |-> DecimalStr(total),
                payment_method |-> payment_method,
                payment_id |-> IF Len(payment_id) > 0 THEN <<payment_id>> ELSE <<>>,
                recipient_list |-> <<notify_to>>]>>

\* the mail transport accepts the mails handed to it or fails; with no mail
\* there is nothing to deliver
Transport(mails) == IF Len(mails) > 0 THEN BOOLEAN ELSE {FALSE}

raises_on_failure(mails, mail_ok, fail_silently) == Len(mails) > 0 /\ ~mail_ok

\* lines 96-102: send_mail raises to _send_order_notification, and so to the
\* view, when the transport fails and fail_silently is off
send_mail_raises(mails, mail_ok, fail_silently) ==
    Len(mails) > 0 /\ ~mail_ok /\ ~fail_silently

\* the arguments of a notifier call, as the caller passed them
NotifierCall(customer_name, customer_email, total, payment_method, payment_id, username) ==
    [customer_name |-> customer_name, customer_email |-> customer_email,
     total |-> total, payment_method |-> payment_method,
     payment_id |-> payment_id, username |-> username]

(***************************************************************************)
(* checkout.                                                               *)
(***************************************************************************)
PaymentMethodFields == {"cod", "online", "upi"}

\* the POST bodies of a checkout submit: no field at all, the payment method
\* alone, or the whole form with a given name (cod) or a blank one (online)
CheckoutPOSTs ==
    {EmptyDict}
    \cup {[payment_method |-> pm] : pm \in PaymentMethodFields}
    \cup {[payment_method |-> "cod", name |-> <<"A", " ">>, address |-> <<" ">>],
          [payment_method |-> "online", name |-> <<" ">>, address |-> <<" ">>]}

no_items_unchecked(items) == FALSE

\* line 285: `if not items`
no_items(items) == Len(items) = 0

any_payment_method(payment_method) == TRUE

\* line 299
valid_payment_method(payment_method) == payment_method \in DOMAIN PAYMENT_METHODS

clear_cart_and_drop_pending(s) ==
    dict_set(dict_set(s, CART_SESSION_KEY, EmptyDict),
             PENDING_PAYMENT_SESSION_KEY, EmptyDict)

\* lines 311-312: the session after a cash-on-delivery order
clear_cart(s) == dict_set(s, CART_SESSION_KEY, EmptyDict)

store_pending_if_absent(s, pending) ==
    IF DOMAIN dict_get(s, PENDING_PAYMENT_SESSION_KEY, EmptyDict) = {}
    THEN dict_set(s, PENDING_PAYMENT_SESSION_KEY, pending)
    ELSE s

store_pending_and_clear_cart(s, pending) ==
    dict_set(dict_set(s, PENDING_PAYMENT_SESSION_KEY, pending),
             CART_SESSION_KEY, EmptyDict)

\* lines 346-354: the session after an online order was created remotely
store_pending(s, pending) == dict_set(s, PENDING_PAYMENT_SESSION_KEY, pending)

checkout(method, POST, products) ==
    LET req == Request("checkout", method, 0, POST)
        cart_data == _get_cart(session)
        built == _build_cart_items(cart_data, catalog, products)
        items == built.items
        total == built.total
        customer_name ==
            Or(strip(dict_get(POST, "name", Or(User.full_name, User.username))),
               User.username)
        customer_email == strip(dict_get(POST, "email", User.email))
        customer_address == strip(dict_get(POST, "address", <<>>))
        payment_method == dict_get(POST, "payment_method", "cod")
        mails == _send_order_notification(customer_name, customer_email, total,
                                          PAYMENT_METHODS["cod"], <<>>, User.username)
        client == _get_razorpay_client
        amount_subunits == total    \* int(total * 100), total counted in hundredths
        order == [id |-> NextOrderId]
        pending == [customer_name |-> customer_name,
                    customer_email |-> customer_email,
                    customer_address |-> customer_address,
                    amount |-> DecimalStr(total),
                    razorpay_order_id |-> order.id,
                    username |-> User.username]
    IN  /\ products \in CartQuery(cart_data, catalog)
        /\ UNCHANGED <<authenticated, catalog, settings, inflight>>
        /\ IF ~authenticated
           THEN /\ UNCHANGED <<session, remote_orders>>
                /\ last' = [request |-> req, response |-> Plain("redirect:login", "", FALSE)]
           ELSE IF no_items(items)
           THEN /\ UNCHANGED <<session, remote_orders>>
                /\ last' = [request |-> req,
                            response |-> Plain("redirect:products",
                                               "Your cart is empty.", FALSE)]
           ELSE IF method # "POST"
           THEN /\ UNCHANGED <<session, remote_orders>>
                /\ last' = [request |-> req,
                            response |-> Response("render:storefront/checkout.html", "",
                                FALSE, <<>>, <<>>, FALSE,
                                [NoContext EXCEPT !.items = items, !.total = total])]
           ELSE IF ~valid_payment_method(payment_method)
           THEN /\ UNCHANGED <<session, remote_orders>>
                /\ last' = [request |-> req,
                            response |-> Plain("redirect:checkout",
                                "Please select a valid payment method.", FALSE)]
           ELSE IF payment_method = "cod"
           THEN /\ UNCHANGED remote_orders
                /\ \E mail_ok \in Transport(mails) :
                   IF send_mail_raises(mails, mail_ok, TRUE)
                   THEN /\ session' = session
                        /\ last' = [request |-> req,
                                    response |-> Plain("status:500", "", FALSE)]
                   ELSE /\ session' = clear_cart(session)
                        /\ last' = [request |-> req,
                            response |-> Response(
                                "render:storefront/checkout_success.html", "", TRUE,
                                <<NotifierCall(customer_name, customer_email, total,
                                               PAYMENT_METHODS["cod"], <<>>,
                                               User.username)>>,
                                mails, mail_ok,
                                [NoContext EXCEPT
                                    !.customer_name = customer_name,
                                    !.total = total,
                                    !.payment_method_label = PAYMENT_METHODS[payment_method]])]
           ELSE IF Len(client) = 0
           THEN /\ UNCHANGED <<session, remote_orders>>
                /\ last' = [request |-> req,
                            response |-> Plain("redirect:checkout",
                                "Online payment is not configured yet.", FALSE)]
           ELSE \/ \* client.order.create raised: the view does not catch it
                   /\ UNCHANGED <<session, remote_orders>>
                   /\ last' = [request |-> req,
                               response |-> Plain("status:500", "", FALSE)]
                \/ /\ remote_orders < MaxRemoteOrders
                   /\ remote_orders' = remote_orders + 1
                   /\ session' = store_pending(session, pending)
                   /\ last' = [request |-> req,
                               response |-> Response(
                                   "render:storefront/online_payment.html", "", TRUE,
                                   <<>>, <<>>, FALSE,
                                   [NoContext EXCEPT
                                       !.customer_name = customer_name,
                                       !.total = total,
                                       !.razorpay_order_id = order.id,
                                       !.amount_subunits = amount_subunits])]

(***************************************************************************)
(* payment_verify.                                                         *)
(***************************************************************************)
OrderIds == {<<"o">> \o str(n) : n \in 1..MaxRemoteOrders}

PaymentIds == {<<"p">>}

\* the signatures the gateway can have issued, and one that it has not
Signatures == {hmac_sha256(o, p) : o \in OrderIds, p \in PaymentIds} \cup {<<"x">>}

VerifyPOSTs ==
    {EmptyDict}
    \cup {[razorpay_order_id |-> o, razorpay_payment_id |-> p, razorpay_signature |-> s] :
            o \in OrderIds, p \in PaymentIds, s \in Signatures}

\* line 395: request.session.get(PENDING_PAYMENT_SESSION_KEY); None and {} are
\* both falsy, and both are the empty dict here
get_pending(s) == dict_get(s, PENDING_PAYMENT_SESSION_KEY, EmptyDict)

pending_never_absent(pending) == FALSE

\* line 396: `if not pending`
no_pending(pending) == DOMAIN pending = {}

order_mismatch_unchecked(razorpay_order_id, pending) == FALSE

\* line 404: pending.get("razorpay_order_id") is None when the key is absent
order_mismatch(razorpay_order_id, pending) ==
    ~("razorpay_order_id" \in DOMAIN pending
        /\ razorpay_order_id = pending.razorpay_order_id)

clear_nothing(s) == s

clear_cart_only(s) == dict_set(s, CART_SESSION_KEY, EmptyDict)

\* lines 435-437: the session after a verified payment
clear_cart_and_pending(s) ==
    dict_set(dict_set(s, CART_SESSION_KEY, EmptyDict),
             PENDING_PAYMENT_SESSION_KEY, EmptyDict)

payment_verify(method, POST) ==
    LET req == Request("payment_verify", method, 0, POST)
        client == _get_razorpay_client
        pending == get_pending(session)
        razorpay_payment_id == dict_get(POST, "razorpay_payment_id", <<>>)
        razorpay_order_id == dict_get(POST, "razorpay_order_id", <<>>)
        razorpay_signature == dict_get(POST, "razorpay_signature", <<>>)
        customer_name == Or(dict_get(pending, "customer_name", <<>>), User.username)
        customer_email == dict_get(pending, "customer_email", <<>>)
        total == Decimal(dict_get(pending, "amount", <<"0", ".", "0", "0">>))
        username == dict_get(pending, "username", User.username)
        mails == _send_order_notification(customer_name, customer_email, total,
                                          PAYMENT_METHODS["online"],
                                          razorpay_payment_id, username)
    IN  /\ UNCHANGED <<authenticated, catalog, settings, inflight, remote_orders>>
        /\ IF ~authenticated
           THEN /\ session' = session
                /\ last' = [request |-> req, response |-> Plain("redirect:login", "", FALSE)]
           ELSE IF method # "POST"
           THEN /\ session' = session
                /\ last' = [request |-> req, response |-> Plain("status:405", "", FALSE)]
           ELSE IF Len(client) = 0
           THEN /\ session' = session
                /\ last' = [request |-> req,
                            response |-> Plain("redirect:checkout",
                                "Online payment is not configured.", FALSE)]
           ELSE IF no_pending(pending)
           THEN /\ session' = session
                /\ last' = [request |-> req,
                            response |-> Plain("redirect:checkout",
                                "No pending online payment found.", FALSE)]
           ELSE IF order_mismatch(razorpay_order_id, pending)
           THEN /\ session' = session
                /\ last' = [request |-> req,
                            response |-> Plain("redirect:checkout",
                                "Order mismatch detected. Please try checkout again.",
                                FALSE)]
           ELSE IF ~verify_payment_signature(
                        [razorpay_order_id |-> razorpay_order_id,
                         razorpay_payment_id |-> razorpay_payment_id,
                         razorpay_signature |-> razorpay_signature])
           THEN /\ session' = session
                /\ last' = [request |-> req,
                            response |-> Plain("render:storefront/payment_failed.html",
                                               "", FALSE)]
           ELSE \E mail_ok \in Transport(mails) :
                   IF send_mail_raises(mails, mail_ok, TRUE)
                   THEN /\ session' = session
                        /\ last' = [request |-> req,
                                    response |-> Plain("status:500", "", FALSE)]
                   ELSE /\ session' = clear_cart_and_pending(session)
                        /\ last' = [request |-> req,
                            response |-> Response(
                                "render:storefront/checkout_success.html", "", TRUE,
                                <<NotifierCall(customer_name, customer_email, total,
                                               PAYMENT_METHODS["online"],
                                               razorpay_payment_id, username)>>,
                                mails, mail_ok,
                                [NoContext EXCEPT
                                    !.customer_name = customer_name,
                                    !.total = total,
                                    !.payment_method_label = PAYMENT_METHODS["online"],
                                    !.payment_id = razorpay_payment_id])]

(***************************************************************************)
(* Login, logout, and the catalog edits of the admin site.                 *)
(***************************************************************************)
\* login_view with valid credentials: login() keeps an anonymous session's data
login_view ==
    /\ UNCHANGED <<session, catalog, settings, inflight, remote_orders>>
    /\ authenticated' = TRUE
    /\ last' = [request |-> Request("login", "POST", 0, EmptyDict),
                response |-> Plain("redirect:home",
                                   IF authenticated THEN "" ELSE "Logged in successfully.",
                                   FALSE)]

\* logout_view: logout() flushes the session
logout_view ==
    /\ UNCHANGED <<catalog, settings, inflight, remote_orders>>
    /\ session' = EmptyDict
    /\ authenticated' = FALSE
    /\ last' = [request |-> Request("logout", "POST", 0, EmptyDict),
                response |-> Plain("redirect:home", "You have been logged out.", TRUE)]

\* ProductAdmin: the staff edits is_active of a product, or deletes it
admin_set_active(id, is_active) ==
    /\ id \in DOMAIN catalog
    /\ catalog[id].is_active # is_active
    /\ catalog' = [catalog EXCEPT ![id].is_active = is_active]
    /\ UNCHANGED <<session, authenticated, settings, inflight, remote_orders>>
    /\ last' = [request |-> Request("admin", "POST", id, EmptyDict),
                response |-> Plain("", "", FALSE)]

admin_delete(id) ==
    /\ id \in DOMAIN catalog
    /\ catalog' = [x \in (DOMAIN catalog) \ {id} |-> catalog[x]]
    /\ UNCHANGED <<session, authenticated, settings, inflight, remote_orders>>
    /\ last' = [request |-> Request("admin", "POST", id, EmptyDict),
                response |-> Plain("", "", FALSE)]

Next ==
    \/ \E id \in ProductIds, POST \in AddPOSTs : add_to_cart("POST", id, POST)
    \/ \E id \in ProductIds : add_to_cart("GET", id, EmptyDict)
    \/ \E m \in Methods, id \in ProductIds : remove_from_cart(m, id)
    \/ \E products \in CartQuery(_get_cart(session), catalog) : cart_view(products)
    \/ \E products \in CartQuery(_get_cart(session), catalog) :
          \/ checkout("GET", EmptyDict, products)
          \/ \E POST \in CheckoutPOSTs : checkout("POST", POST, products)
    \/ \E POST \in VerifyPOSTs : payment_verify("POST", POST)
    \/ payment_verify("GET", EmptyDict)
    \/ login_view
    \/ logout_view
    \/ \E id \in Togglable, b \in BOOLEAN : admin_set_active(id, b)
    \/ \E id \in Deletable : admin_delete(id)

Spec == Init /\ [][Next]_vars

(***************************************************************************)
(* Pricing on its own: _build_cart_items applied to every cart over the    *)
(* product ids with quantities up to MaxQuantity and to every catalog      *)
(* (rows present or missing, active or not, either price).                 *)
(***************************************************************************)
Prices == {5000, 10000}

PricingCarts ==
    UNION {[keys -> 1..MaxQuantity] : keys \in SUBSET {str(id) : id \in ProductIds}}

PricingCatalogs ==
    UNION {[ids -> [price : Prices, is_active : BOOLEAN]] : ids \in SUBSET ProductIds}

PricingInit ==
    /\ session \in {EmptyDict} \cup {_save_cart(EmptyDict, c) : c \in PricingCarts}
    /\ catalog \in PricingCatalogs
    /\ authenticated = FALSE
    /\ settings \in {st \in SettingsSpace : Len(_get_razorpay_client_of(st)) > 0
                                            /\ st.ORDER_NOTIFY_EMAIL # ""}
    /\ remote_orders = 0
    /\ last = [request |-> Request("start", "GET", 0, EmptyDict),
               response |-> Plain("", "", FALSE)]
    /\ inflight = [t \in Tabs |-> Idle]

PricingNext ==
    \E products \in CartQuery(_get_cart(session), catalog) : cart_view(products)

SpecPricing == PricingInit /\ [][PricingNext]_vars

(***************************************************************************)
(* add_to_cart step by step: two tabs of one visitor each send one         *)
(* add_to_cart POST on the same session, and the requests interleave. A    *)
(* request loads the session data when the view first touches              *)
(* request.session (_get_cart), works on that copy, and the copy is        *)
(* written back to the session store when _save_cart has marked it         *)
(* modified and the response goes out.                                     *)
(***************************************************************************)
stored_session(own, stored) == stored

\* lines 35 and 39: request.session is the request's own copy of the session
\* data, loaded once per request, and not what the store holds by now
request_session(own, stored) == own

\* lines 236-241: the request arrives; the product is looked up and the
\* quantity parsed before the session is touched
race_begin(t, product_id, POST) ==
    LET req == Request("add_to_cart", "POST", product_id, POST)
        raw == IF "quantity" \in DOMAIN POST THEN POST.quantity ELSE <<"1">>
        failed(status) ==
            /\ inflight' = [inflight EXCEPT ![t] =
                    [Idle EXCEPT !.pc = "failed", !.product_id = product_id,
                                 !.POST = POST, !.outcome = status]]
            /\ last' = [request |-> req, response |-> Plain(status, "", FALSE)]
    IN  /\ inflight[t].pc = "idle"
        /\ UNCHANGED <<session, authenticated, catalog, settings, remote_orders>>
        /\ IF ~get_object_or_404(catalog, product_id) THEN failed("status:404")
           ELSE IF ~IsIntLiteral(raw) THEN failed("status:500")
           ELSE /\ inflight' = [inflight EXCEPT ![t] =
                        [Idle EXCEPT !.pc = "parsed", !.product_id = product_id,
                                     !.POST = POST]]
                /\ last' = last

\* line 243: _get_cart touches request.session, which loads the session data
race_read(t) ==
    /\ inflight[t].pc = "parsed"
    /\ inflight' = [inflight EXCEPT ![t] =
            [@ EXCEPT !.pc = "read", !.session = session,
                      !.preceded_by = {u \in Tabs : inflight[u].pc = "saved"}]]
    /\ UNCHANGED <<session, authenticated, catalog, settings, remote_orders, last>>

\* lines 243-249: the increment on the request's copy, _save_cart, and the
\* write of the copy to the session store with the response
race_save(t) ==
    LET r == inflight[t]
        raw == IF "quantity" \in DOMAIN r.POST THEN r.POST.quantity ELSE <<"1">>
        quantity == coerce_quantity(int(raw))
        own == request_session(r.session, session)
        cart == _get_cart(own)
        key == str(r.product_id)
        new_cart == cart_add(cart, key, quantity)
    IN  /\ r.pc = "read"
        /\ new_cart[key] <= MaxQuantity
        /\ session' = _save_cart(own, new_cart)
        /\ inflight' = [inflight EXCEPT ![t] =
                [@ EXCEPT !.pc = "saved", !.outcome = "redirect:products"]]
        /\ last' = [request |-> Request("add_to_cart", "POST", r.product_id, r.POST),
                    response |-> Plain("redirect:products", "Added to cart.", TRUE)]
        /\ UNCHANGED <<authenticated, catalog, settings, remote_orders>>

\* the session holds no cart yet, or a cart with one product 1
RaceCarts == {EmptyDict, dict_set(EmptyDict, str(1), 1)}

RaceInit ==
    /\ session \in {EmptyDict} \cup {_save_cart(EmptyDict, c) : c \in RaceCarts}
    /\ authenticated = FALSE
    /\ catalog \in {[id \in ProductIds |->
                        [price |-> InitialPrice(id),
                         is_active |-> (id \notin Togglable) \/ b]] : b \in BOOLEAN}
    /\ settings \in {st \in SettingsSpace : Len(_get_razorpay_client_of(st)) > 0
                                            /\ st.ORDER_NOTIFY_EMAIL # ""}
    /\ remote_orders = 0
    /\ last = [request |-> Request("start", "GET", 0, EmptyDict),
               response |-> Plain("", "", FALSE)]
    /\ inflight = [t \in Tabs |-> Idle]

RaceNext ==
    \/ \E t \in Tabs, id \in ProductIds, POST \in AddPOSTs : race_begin(t, id, POST)
    \/ \E t \in Tabs : race_read(t)
    \/ \E t \in Tabs : race_save(t)

SpecRace == RaceInit /\ [][RaceNext]_vars

(***************************************************************************)
(* Vocabulary of the properties.                                           *)
(***************************************************************************)
Cart == _get_cart(session)

HasPending == ~no_pending(get_pending(session))

Req == last.request

Resp == last.response

Success == "render:storefront/checkout_success.html"

ReqField(name) == dict_get(Req.POST, name, <<>>)

\* the request of this step, its fields, and the response it got
IsStep(op) == last'.request.op = op

Field(name) == dict_get(last'.request.POST, name, <<>>)

SubmittedMethod == dict_get(last'.request.POST, "payment_method", "cod")

\* the submitted order id is the one the session's pending record stores
OrderMatches == HasPending /\ Field("razorpay_order_id") = get_pending(session).razorpay_order_id

\* the submitted signature is the one the gateway issues for the submitted ids
SignatureValid ==
    Field("razorpay_signature")
        = hmac_sha256(Field("razorpay_order_id"), Field("razorpay_payment_id"))

NoNotification ==
    last'.response.notifications = <<>> /\ last'.response.mails = <<>>

CartCleared(s) == CART_SESSION_KEY \in DOMAIN s /\ DOMAIN _get_cart(s) = {}

PendingCleared(s) ==
    PENDING_PAYMENT_SESSION_KEY \in DOMAIN s /\ DOMAIN get_pending(s) = {}

(***************************************************************************)
(* C1..C6: checkout and payment verification.                              *)
(***************************************************************************)
\* C1: a payment_verify request whose submitted razorpay_order_id differs from
\* the one stored in the session's pending record leaves the whole session
\* (pending record and cart) as it was and sends no notification, whatever
\* signature and payment id it carries.
C1_MismatchKeepsSession ==
    [][(IsStep("payment_verify") /\ HasPending /\ ~OrderMatches)
            => (session' = session /\ NoNotification)]_vars

\* a mismatch was answered although the request carried a signature the
\* gateway issued for the order it named; cart and pending record are in place
C1_Witness ==
    /\ Req.op = "payment_verify"
    /\ Resp.message = "Order mismatch detected. Please try checkout again."
    /\ ReqField("razorpay_signature")
         = hmac_sha256(ReqField("razorpay_order_id"), ReqField("razorpay_payment_id"))
    /\ HasPending
    /\ DOMAIN Cart # {}

\* C2: a payment_verify request with a pending record, a matching order id
\* and a valid signature clears cart and pending record, calls the notifier
\* exactly once (which hands at most one mail to the transport, and exactly
\* one when a notify address is configured) and renders the success page;
\* every other payment_verify request leaves the session as it was.
C2_ValidVerifyClearsBoth ==
    [][IsStep("payment_verify")
            => IF OrderMatches /\ SignatureValid
               THEN /\ CartCleared(session')
                    /\ PendingCleared(session')
                    /\ Len(last'.response.notifications) = 1
                    /\ Len(last'.response.mails)
                         = (IF settings.ORDER_NOTIFY_EMAIL = "" THEN 0 ELSE 1)
                    /\ last'.response.outcome = Success
                    /\ last'.response.context.payment_id = Field("razorpay_payment_id")
               ELSE /\ session' = session
                    /\ last'.response.outcome # Success
                    /\ NoNotification]_vars

\* a verification succeeded and a mail was handed to the transport
C2_Witness ==
    /\ Req.op = "payment_verify"
    /\ Resp.outcome = Success
    /\ Len(Resp.mails) = 1
    /\ CartCleared(session)
    /\ PendingCleared(session)

\* C3: a payment_verify request with a matching order id and an invalid
\* signature renders the payment-failed page, leaves the session (pending
\* record and cart) as it was and sends no notification; and a payment_verify
\* request that follows it for the same order with a valid signature succeeds.
C3_InvalidSignatureKeepsPending ==
    [][/\ (IsStep("payment_verify") /\ OrderMatches /\ ~SignatureValid)
            => /\ last'.response.outcome = "render:storefront/payment_failed.html"
               /\ session' = session
               /\ NoNotification
       /\ (/\ Req.op = "payment_verify"
           /\ Resp.outcome = "render:storefront/payment_failed.html"
           /\ IsStep("payment_verify")
           /\ Field("razorpay_order_id") = ReqField("razorpay_order_id")
           /\ SignatureValid)
            => /\ last'.response.outcome = Success
               /\ remote_orders' = remote_orders]_vars

\* a verification of the pending order failed on its signature: the pending
\* record for that order and the cart are still in the session
C3_Witness ==
    /\ Req.op = "payment_verify"
    /\ Resp.outcome = "render:storefront/payment_failed.html"
    /\ HasPending
    /\ get_pending(session).razorpay_order_id = ReqField("razorpay_order_id")
    /\ DOMAIN Cart # {}

\* C4: a cash-on-delivery checkout that succeeds leaves the cart empty; an
\* online checkout submit leaves the cart as it was, and so does every
\* payment_verify request that does not succeed; a payment_verify that
\* succeeds leaves it empty.
C4_CartClearedOnlyOnSuccess ==
    [][/\ (IsStep("checkout") /\ last'.response.outcome = Success)
            => CartCleared(session')
       /\ (IsStep("checkout") /\ last'.request.method = "POST"
                /\ SubmittedMethod = "online")
            => (_get_cart(session') = Cart
                /\ (CART_SESSION_KEY \in DOMAIN session'
                        <=> CART_SESSION_KEY \in DOMAIN session))
       /\ (IsStep("payment_verify") /\ last'.response.outcome # Success)
            => _get_cart(session') = Cart
       /\ (IsStep("payment_verify") /\ last'.response.outcome = Success)
            => CartCleared(session')]_vars

\* an online checkout submit stored a pending record and the cart is still full
C4_Witness ==
    /\ Req.op = "checkout"
    /\ Resp.outcome = "render:storefront/online_payment.html"
    /\ HasPending
    /\ DOMAIN Cart # {}

\* C5: a checkout request made while the stored cart is empty creates no
\* remote order, stores no pending record (the session stays as it was),
\* sends no notification and does not render the success page; for a
\* logged-in caller (login_required runs first) it ends in the redirect to
\* the product list with the "cart is empty" warning.
C5_EmptyCartShortCircuits ==
    [][(IsStep("checkout") /\ DOMAIN Cart = {})
            => /\ remote_orders' = remote_orders
               /\ session' = session
               /\ NoNotification
               /\ last'.response.outcome # Success
               /\ authenticated
                    => /\ last'.response.outcome = "redirect:products"
                       /\ last'.response.message = "Your cart is empty."]_vars

\* an online checkout submit on an empty cart, gateway configured, was
\* answered with the warning
C5_Witness ==
    /\ Req.op = "checkout"
    /\ Req.method = "POST"
    /\ dict_get(Req.POST, "payment_method", "cod") = "online"
    /\ Len(_get_razorpay_client) > 0
    /\ Resp.message = "Your cart is empty."
    /\ DOMAIN Cart = {}

\* the cart prices to at least one item: some entry is for an active product
HasItems == Product_objects_filter(catalog, {int(k) : k \in DOMAIN Cart}) # {}

InvalidMethodSubmit ==
    /\ IsStep("checkout")
    /\ last'.request.method = "POST"
    /\ ~(SubmittedMethod \in {"cod", "online"})

\* C6 as stated, for a logged-in caller with a non-empty stored cart (the
\* preconditions of checkout): a checkout POST with a payment method other
\* than cod and online sends no notification, creates no remote order, leaves
\* the session as it was and ends in the error redirect to the checkout form.
C6_Original ==
    [][(InvalidMethodSubmit /\ authenticated /\ DOMAIN Cart # {})
            => /\ NoNotification
               /\ remote_orders' = remote_orders
               /\ session' = session
               /\ last'.response.outcome = "redirect:checkout"
               /\ last'.response.message = "Please select a valid payment method."]_vars

\* C6, amended: such a POST never finalizes an order (no notification, no
\* remote order, session as it was, no success page); it ends in the error
\* redirect to the checkout form when the caller is logged in and some cart
\* entry is for an active product, and in the "cart is empty" warning
\* redirect when the caller is logged in and no entry is.
C6_InvalidMethodNeverFinalizes ==
    [][InvalidMethodSubmit
            => /\ NoNotification
               /\ remote_orders' = remote_orders
               /\ session' = session
               /\ last'.response.outcome # Success
               /\ (authenticated /\ HasItems)
                    => /\ last'.response.outcome = "redirect:checkout"
                       /\ last'.response.message
                            = "Please select a valid payment method."
               /\ (authenticated /\ ~HasItems)
                    => /\ last'.response.outcome = "redirect:products"
                       /\ last'.response.message = "Your cart is empty."]_vars

\* an invalid payment method was refused with the error redirect
C6_Witness ==
    /\ Req.op = "checkout"
    /\ dict_get(Req.POST, "payment_method", "cod") = "upi"
    /\ Resp.outcome = "redirect:checkout"
    /\ Resp.message = "Please select a valid payment method."
    /\ DOMAIN Cart # {}

(***************************************************************************)
(* C7: cart pricing.                                                       *)
(***************************************************************************)
\* the cart entries whose product is an active row of the catalog
ActiveEntries(cart, cat) ==
    {k \in DOMAIN cart : \E id \in DOMAIN cat : str(id) = k /\ cat[id].is_active}

PriceOf(k, cat) == cat[CHOOSE id \in DOMAIN cat : str(id) = k].price

RECURSIVE SumEntries(_, _, _)
SumEntries(keys, cart, cat) ==
    IF keys = {} THEN 0
    ELSE LET k == CHOOSE x \in keys : TRUE
         IN  PriceOf(k, cat) * cart[k] + SumEntries(keys \ {k}, cart, cat)

Priced(built, cart, cat) ==
    /\ built.total = SumEntries(ActiveEntries(cart, cat), cart, cat)
    /\ Len(built.items) = Cardinality(ActiveEntries(cart, cat))
    /\ {<<str(built.items[i].product), built.items[i].quantity>> :
            i \in DOMAIN built.items}
         = {<<k, cart[k]>> : k \in ActiveEntries(cart, cat)}
    /\ \A i \in DOMAIN built.items :
            built.items[i].line_total
                = PriceOf(str(built.items[i].product), cat) * built.items[i].quantity

\* C7: for the cart and the catalog at hand, and whatever order the query
\* returns its rows in, the total of _build_cart_items is the sum of price
\* times stored quantity over the cart entries whose product is active, and
\* the items are exactly those entries, each once with its stored quantity;
\* the cart page shows that result.
C7_TotalIsSumOverActiveEntries ==
    /\ \A products \in CartQuery(Cart, catalog) :
            Priced(_build_cart_items(Cart, catalog, products), Cart, catalog)
    /\ Req.op = "cart" => Priced(Resp.context, Cart, catalog)

\* the cart page priced a cart with an entry for an active product, one for
\* an inactive product or a product that is gone, and showed only the first
C7_Witness ==
    /\ Req.op = "cart"
    /\ Cardinality(DOMAIN Cart) = 2
    /\ Len(Resp.context.items) = 1
    /\ Resp.context.total > 0

(***************************************************************************)
(* C8..C10: the cart store.                                                *)
(***************************************************************************)
\* the product of this step's request is an active row of the catalog
ProductActive ==
    /\ last'.request.product_id \in DOMAIN catalog
    /\ catalog[last'.request.product_id].is_active

Key == str(last'.request.product_id)

QuantityGiven == "quantity" \in DOMAIN last'.request.POST

QuantityParses == ~QuantityGiven \/ IsIntLiteral(last'.request.POST.quantity)

\* the quantity the request asks for: the field's value, 1 without the field
Requested == IF QuantityGiven THEN int(last'.request.POST.quantity) ELSE 1

AddStep ==
    /\ IsStep("add_to_cart")
    /\ last'.request.method = "POST"
    /\ ProductActive
    /\ QuantityParses

CartWith(cart, key, quantity) ==
    [k \in (DOMAIN cart) \cup {key} |-> IF k = key THEN quantity ELSE cart[k]]

Stored(cart, key) == IF key \in DOMAIN cart THEN cart[key] ELSE 0

\* C8: add_to_cart for an active product with quantity q >= 1 raises that
\* product's stored quantity by exactly q (to q if it was absent) and leaves
\* every other entry as it was; so after two such requests in a row for the
\* same product, with q1 and q2, at least q1 + q2 is stored, not q2.
C8_AddIncrements ==
    [][/\ (AddStep /\ Requested >= 1)
            => /\ _get_cart(session') = CartWith(Cart, Key, Stored(Cart, Key) + Requested)
               /\ last'.response.outcome = "redirect:products"
       /\ (/\ AddStep /\ Requested >= 1
           /\ Req.op = "add_to_cart" /\ Resp.outcome = "redirect:products"
           /\ Req.product_id = last'.request.product_id
           /\ "quantity" \in DOMAIN Req.POST /\ int(Req.POST.quantity) >= 1)
            => _get_cart(session')[Key] >= int(Req.POST.quantity) + Requested]_vars

\* a product was added with quantity 1 twice: 2 is stored, next to another entry
C8_Witness ==
    /\ Req.op = "add_to_cart"
    /\ Resp.outcome = "redirect:products"
    /\ dict_get(Req.POST, "quantity", <<>>) = <<"1">>
    /\ Cart[str(Req.product_id)] = 2
    /\ Cardinality(DOMAIN Cart) = 2

PositiveQuantities ==
    \A k \in DOMAIN Cart : IsIntLiteral(k) /\ Cart[k] >= 1

\* C9: whatever requests were made, every key of the session cart is a
\* string-encoded integer and every stored quantity is at least 1; and an
\* add_to_cart whose quantity field is missing or below 1 adds exactly 1.
C9_QuantitiesPositive ==
    /\ []PositiveQuantities
    /\ [][(AddStep /\ Requested < 1)
            => _get_cart(session') = CartWith(Cart, Key, Stored(Cart, Key) + 1)]_vars

\* a request for quantity -1 was answered by adding the product
C9_Witness ==
    /\ Req.op = "add_to_cart"
    /\ Resp.outcome = "redirect:products"
    /\ dict_get(Req.POST, "quantity", <<>>) = <<"-", "1">>
    /\ Cart[str(Req.product_id)] = 1

\* C10: a remove_from_cart POST for a product id that is no key of the cart
\* leaves the session as it was, ends in the plain redirect to the cart page
\* without a message and does not mark the session modified; one for a key of
\* the cart removes that entry alone and marks the session modified.
C10_RemoveAbsentIsNoOp ==
    [][(IsStep("remove_from_cart") /\ last'.request.method = "POST")
            => IF Key \in DOMAIN Cart
               THEN /\ last'.response.modified
                    /\ _get_cart(session') = [k \in (DOMAIN Cart) \ {Key} |-> Cart[k]]
               ELSE /\ session' = session
                    /\ ~last'.response.modified
                    /\ last'.response.outcome = "redirect:cart"
                    /\ last'.response.message = ""]_vars

\* a product that is not in a non-empty cart was removed: nothing was saved
C10_Witness ==
    /\ Req.op = "remove_from_cart"
    /\ Req.method = "POST"
    /\ ~(str(Req.product_id) \in DOMAIN Cart)
    /\ DOMAIN Cart # {}
    /\ ~Resp.modified
    /\ Resp.outcome = "redirect:cart"

(***************************************************************************)
(* C11: adding to an empty cart, then removing.                            *)
(***************************************************************************)
\* the last request was an add_to_cart with a quantity field q >= 1 that
\* succeeded on an empty cart: the cart is that one entry with quantity q
AddedToEmpty ==
    /\ Req.op = "add_to_cart"
    /\ Resp.outcome = "redirect:products"
    /\ "quantity" \in DOMAIN Req.POST
    /\ int(Req.POST.quantity) >= 1
    /\ Cart = CartWith(EmptyDict, str(Req.product_id), int(Req.POST.quantity))

\* C11: when add_to_cart of an active product with a quantity q >= 1 has just
\* succeeded on an empty cart, a remove_from_cart POST for the same product
\* that comes next leaves the stored cart empty (and saves it).
C11_AddThenRemoveIsEmpty ==
    [][(/\ AddedToEmpty
        /\ IsStep("remove_from_cart")
        /\ last'.request.method = "POST"
        /\ last'.request.product_id = Req.product_id)
            => /\ _get_cart(session') = EmptyDict
               /\ CART_SESSION_KEY \in DOMAIN session'
               /\ last'.response.modified]_vars

\* a product was removed from a cart that held it alone: the cart is stored,
\* empty, and the removal was announced
C11_Witness ==
    /\ Req.op = "remove_from_cart"
    /\ Req.method = "POST"
    /\ Resp.message = "Item removed from cart."
    /\ CartCleared(session)

(***************************************************************************)
(* C12..C13: the pending record.                                           *)
(***************************************************************************)
\* the order ids the gateway has issued so far
IssuedOrderIds == {<<"o">> \o str(n) : n \in 1..remote_orders}

\* this step is an online checkout submit that created a remote order
OnlineSubmitStored ==
    /\ IsStep("checkout")
    /\ last'.response.outcome = "render:storefront/online_payment.html"

\* C12: the session stores one pending record under one key; an online
\* checkout submit that creates a remote order while a pending record is
\* stored replaces that record, so that the stored order id is the new
\* order's and no longer the earlier one; and a payment_verify POST that
\* names an issued order id other than the stored one (an earlier order's) is
\* answered with the order-mismatch error redirect.
C12_NewPendingOverwrites ==
    [][/\ (OnlineSubmitStored /\ HasPending)
            => /\ get_pending(session').razorpay_order_id
                    = last'.response.context.razorpay_order_id
               /\ get_pending(session').razorpay_order_id
                    # get_pending(session).razorpay_order_id
               /\ ~(get_pending(session').razorpay_order_id \in IssuedOrderIds)
       /\ (/\ IsStep("payment_verify") /\ last'.request.method = "POST"
           /\ HasPending
           /\ Field("razorpay_order_id") \in IssuedOrderIds
           /\ Field("razorpay_order_id") # get_pending(session).razorpay_order_id)
            => /\ last'.response.outcome = "redirect:checkout"
               /\ last'.response.message
                    = "Order mismatch detected. Please try checkout again."
               /\ session' = session]_vars

\* two remote orders were created, the record stores the second, and a
\* payment_verify naming the first with its valid signature was refused
C12_Witness ==
    /\ Req.op = "payment_verify"
    /\ Resp.message = "Order mismatch detected. Please try checkout again."
    /\ remote_orders = 2
    /\ ReqField("razorpay_order_id") = <<"o", "1">>
    /\ ReqField("razorpay_signature") = hmac_sha256(<<"o", "1">>, <<"p">>)
    /\ get_pending(session).razorpay_order_id = <<"o", "2">>

MismatchAnswered ==
    last'.response.message = "Order mismatch detected. Please try checkout again."

SignatureFailureAnswered ==
    last'.response.outcome = "render:storefront/payment_failed.html"

\* C13 as stated: a payment_verify request answered with the order-mismatch
\* error, or with the success page, leaves the pending record cleared (stored
\* as an empty record); one answered with the payment-failed page leaves the
\* record as it was.
C13_Original ==
    [][IsStep("payment_verify")
            => /\ (MismatchAnswered \/ last'.response.outcome = Success)
                    => PendingCleared(session')
               /\ SignatureFailureAnswered
                    => get_pending(session') = get_pending(session)]_vars

\* C13, amended: among the payment_verify requests, only one answered with
\* the success page clears the pending record; one answered with the
\* order-mismatch error leaves the record in place as it was, and so does one
\* answered with the payment-failed page.
C13_PendingClearedOnlyOnSuccess ==
    [][IsStep("payment_verify")
            => /\ last'.response.outcome = Success => PendingCleared(session')
               /\ (MismatchAnswered \/ SignatureFailureAnswered)
                    => /\ HasPending
                       /\ session' = session
               /\ get_pending(session') # get_pending(session)
                    => last'.response.outcome = Success]_vars

\* an order mismatch was answered, and the pending record of the other
\* order is still stored
C13_Witness ==
    /\ Req.op = "payment_verify"
    /\ Resp.message = "Order mismatch detected. Please try checkout again."
    /\ Resp.outcome = "redirect:checkout"
    /\ ~PendingCleared(session)
    /\ get_pending(session).razorpay_order_id # ReqField("razorpay_order_id")
    /\ get_pending(session).razorpay_order_id \in OrderIds

(***************************************************************************)
(* C14..C16: error handling.                                               *)
(***************************************************************************)
\* key id and key secret are set and the gateway library is installed
GatewayConfigured ==
    /\ settings.RAZORPAY_KEY_ID # ""
    /\ settings.RAZORPAY_KEY_SECRET # ""
    /\ settings.razorpay

OnlineSubmit ==
    /\ IsStep("checkout")
    /\ last'.request.method = "POST"
    /\ SubmittedMethod = "online"

\* C14: an online checkout submit made while the key id or the key secret is
\* empty or the gateway library is missing creates no remote order, leaves
\* the session (pending record and cart) as it was, sends no notification and
\* ends neither in a server error nor in the payment or the success page; when
\* checkout's preconditions hold (the caller is logged in and the cart prices
\* to at least one item) it ends in the "not configured" error redirect to
\* the checkout form.
C14_UnconfiguredGatewayDegrades ==
    [][(OnlineSubmit /\ ~GatewayConfigured)
            => /\ remote_orders' = remote_orders
               /\ session' = session
               /\ NoNotification
               /\ ~last'.response.modified
               /\ ~(last'.response.outcome
                        \in {"status:500", Success,
                             "render:storefront/online_payment.html"})
               /\ (authenticated /\ HasItems)
                    => /\ last'.response.outcome = "redirect:checkout"
                       /\ last'.response.message
                            = "Online payment is not configured yet."]_vars

\* an online submit for a cart with items was refused as not configured
\* although both keys are set: the gateway library is missing
C14_Witness ==
    /\ Req.op = "checkout"
    /\ dict_get(Req.POST, "payment_method", "cod") = "online"
    /\ Resp.message = "Online payment is not configured yet."
    /\ settings.RAZORPAY_KEY_ID # ""
    /\ settings.RAZORPAY_KEY_SECRET # ""
    /\ ~settings.razorpay
    /\ DOMAIN Cart # {}
    /\ remote_orders = 0
    /\ ~HasPending

\* C15: an add_to_cart POST for a product id that is no row of the catalog,
\* or the id of an inactive row, is answered with the not-found status and
\* leaves the session (and so the cart) as it was and unsaved, whatever the
\* quantity field holds: an integer of any sign, a non-number, or nothing.
C15_AddUnknownProductNotFound ==
    [][(IsStep("add_to_cart") /\ last'.request.method = "POST" /\ ~ProductActive)
            => /\ last'.response.outcome = "status:404"
               /\ session' = session
               /\ ~last'.response.modified]_vars

\* not-found was answered for an inactive product that the cart already
\* holds, on a request with a quantity that is no number
C15_Witness ==
    /\ Req.op = "add_to_cart"
    /\ Resp.outcome = "status:404"
    /\ dict_get(Req.POST, "quantity", <<>>) = <<"x">>
    /\ Req.product_id \in DOMAIN catalog
    /\ ~catalog[Req.product_id].is_active
    /\ str(Req.product_id) \in DOMAIN Cart

\* this step is a cash-on-delivery checkout submit that meets checkout's
\* preconditions
CodSubmit ==
    /\ IsStep("checkout")
    /\ last'.request.method = "POST"
    /\ SubmittedMethod = "cod"
    /\ authenticated
    /\ HasItems

\* C16: a cash-on-delivery checkout submit by a logged-in caller whose cart
\* has items renders the success page, stores the cart empty and changes
\* nothing else of the session; a payment_verify with the pending order's id
\* and a valid signature renders the success page and stores cart and pending
\* record empty. Both hold whether a notify address is configured or not and
\* whether the transport accepted the mail or failed: the notifier is called
\* once, and no step that calls it ends in a server error.
C16_ConfirmationIgnoresDelivery ==
    [][/\ CodSubmit
            => /\ last'.response.outcome = Success
               /\ session' = CartWith(session, CART_SESSION_KEY, EmptyDict)
               /\ Len(last'.response.notifications) = 1
       /\ (IsStep("payment_verify") /\ OrderMatches /\ SignatureValid)
            => /\ last'.response.outcome = Success
               /\ session' = CartWith(CartWith(session, CART_SESSION_KEY, EmptyDict),
                                      PENDING_PAYMENT_SESSION_KEY, EmptyDict)
               /\ Len(last'.response.notifications) = 1
       /\ (Len(last'.response.notifications) > 0 \/ CodSubmit)
            => last'.response.outcome # "status:500"]_vars

\* the transport failed to deliver the mail of a cash-on-delivery order, and
\* the order was confirmed and the cart cleared all the same
C16_Witness ==
    /\ Req.op = "checkout"
    /\ Resp.outcome = Success
    /\ Len(Resp.mails) = 1
    /\ ~Resp.delivered
    /\ settings.ORDER_NOTIFY_EMAIL # ""
    /\ CartCleared(session)

(***************************************************************************)
(* C17: pricing and the stored cart.                                       *)
(***************************************************************************)
\* this step renders the cart page or the checkout form
PricingStep ==
    \/ IsStep("cart")
    \/ IsStep("checkout") /\ last'.request.method = "GET"

ItemsShown ==
    last'.response.outcome
        \in {"render:storefront/cart.html", "render:storefront/checkout.html"}

\* C17: a request for the cart page or the checkout form leaves the session,
\* and so the stored cart, as it was; the items it shows are exactly the cart
\* entries whose product is active, each with its stored quantity, so that an
\* entry of an inactive or deleted product is not shown and is still stored;
\* a catalog edit leaves the session as it was; and the cart page requested
\* right after a product of the cart was made active shows that product with
\* the quantity stored for it.
C17_PricingKeepsStoredCart ==
    [][/\ PricingStep => session' = session /\ ~last'.response.modified
       /\ (PricingStep /\ ItemsShown)
            => Priced(last'.response.context, _get_cart(session'), catalog)
       /\ IsStep("admin") => session' = session
       /\ (/\ Req.op = "admin"
           /\ Req.product_id \in DOMAIN catalog
           /\ catalog[Req.product_id].is_active
           /\ str(Req.product_id) \in DOMAIN Cart
           /\ IsStep("cart"))
            => \E i \in DOMAIN last'.response.context.items :
                  /\ last'.response.context.items[i].product = Req.product_id
                  /\ last'.response.context.items[i].quantity
                        = Cart[str(Req.product_id)]]_vars

\* the cart page was shown while product 1 was inactive: its entry is stored
\* with quantity 2 and no item is shown for it
C17_Witness ==
    /\ Req.op = "cart"
    /\ 1 \in DOMAIN catalog
    /\ ~catalog[1].is_active
    /\ str(1) \in DOMAIN Cart
    /\ Cart[str(1)] = 2
    /\ \A i \in DOMAIN Resp.context.items : Resp.context.items[i].product # 1

(***************************************************************************)
(* C18: two add_to_cart requests racing on one session.                    *)
(***************************************************************************)
\* the quantity a request in flight adds
QuantityOf(r) ==
    LET q == IF "quantity" \in DOMAIN r.POST THEN int(r.POST.quantity) ELSE 1
    IN  IF q < 1 THEN 1 ELSE q

\* tab t saves in this step, tab u has saved, and t had loaded the session
\* before u saved: both requests read the cart before either saved it
SavesLastAfterBothRead(t, u) ==
    /\ t # u
    /\ inflight[t].pc = "read"
    /\ inflight'[t].pc = "saved"
    /\ inflight[u].pc = "saved"
    /\ ~(u \in inflight[t].preceded_by)

\* C18: when two add_to_cart requests have both read the session cart before
\* either saved it, both read the same cart, and once the second has saved,
\* the stored cart is that cart with the second request's increment alone:
\* the entry of the first request's product is what was read (its increment
\* is lost) unless it is the second's product as well, which then holds what
\* was read plus the second's quantity; both requests are answered with the
\* redirect, none with an error.
C18_LastWriteWins ==
    [][\A t, u \in Tabs :
        SavesLastAfterBothRead(t, u)
            => LET read == _get_cart(inflight[t].session)
                   key == str(inflight[t].product_id)
                   other == str(inflight[u].product_id)
               IN  /\ _get_cart(inflight[u].session) = read
                   /\ _get_cart(session')
                        = CartWith(read, key, Stored(read, key) + QuantityOf(inflight[t]))
                   /\ other # key
                        => Stored(_get_cart(session'), other) = Stored(read, other)
                   /\ inflight'[t].outcome = "redirect:products"
                   /\ inflight'[u].outcome = "redirect:products"]_vars

\* both requests read the empty cart, the request for product 1 saved first
\* and the one for product 2 last: only product 2 is stored
C18_Witness ==
    /\ \A t \in Tabs : inflight[t].pc = "saved" /\ inflight[t].preceded_by = {}
    /\ \A t \in Tabs : _get_cart(inflight[t].session) = EmptyDict
    /\ {inflight[t].product_id : t \in Tabs} = {1, 2}
    /\ Req.product_id = 2
    /\ DOMAIN Cart = {str(2)}

(***************************************************************************)
(* C19..C20: the pending record after an order was completed.              *)
(***************************************************************************)
NoPendingAnswered ==
    /\ last'.response.outcome = "redirect:checkout"
    /\ last'.response.message = "No pending online payment found."

\* C19: a payment_verify that succeeds stores the pending record as an empty
\* record; while the session holds that empty record, every payment_verify
\* request leaves the session (and so the cart) as it was, sends no
\* notification and does not succeed, and every payment_verify POST is
\* answered with the "no pending payment" error redirect; so is the
\* payment_verify POST that directly follows a successful one, even when it
\* repeats its fields; and a session without a pending record gets one only
\* by an online checkout submit that created a remote order.
C19_NoReplayAfterSuccess ==
    [][/\ (IsStep("payment_verify") /\ last'.response.outcome = Success)
            => PendingCleared(session')
       /\ (IsStep("payment_verify") /\ PendingCleared(session))
            => /\ session' = session
               /\ NoNotification
               /\ last'.response.outcome # Success
               /\ last'.request.method = "POST" => NoPendingAnswered
       /\ (/\ Req.op = "payment_verify" /\ Resp.outcome = Success
           /\ IsStep("payment_verify") /\ last'.request.method = "POST")
            => /\ NoPendingAnswered
               /\ NoNotification
               /\ _get_cart(session') = Cart
       /\ (DOMAIN get_pending(session) = {} /\ DOMAIN get_pending(session') # {})
            => OnlineSubmitStored]_vars

\* the callback that had succeeded for order o1 was sent again with its valid
\* signature, after a product was added to the cart: it was refused, the
\* record is still empty and the cart still holds the product
C19_Witness ==
    /\ Req.op = "payment_verify"
    /\ Resp.message = "No pending online payment found."
    /\ PendingCleared(session)
    /\ remote_orders = 1
    /\ ReqField("razorpay_order_id") = <<"o", "1">>
    /\ ReqField("razorpay_signature") = hmac_sha256(<<"o", "1">>, <<"p">>)
    /\ DOMAIN Cart # {}

\* C20: a checkout request that completes a cash-on-delivery order leaves
\* the pending record as it was, stored or not; and when such an order was
\* just completed while a pending record is stored, a payment_verify POST
\* with that record's order id and a valid signature renders the success
\* page, calls the notifier once, with the amount the record holds and the
\* payment id submitted, and clears the record.
C20_CodKeepsPending ==
    [][/\ (IsStep("checkout") /\ last'.response.outcome = Success)
            => /\ SubmittedMethod = "cod"
               /\ get_pending(session') = get_pending(session)
               /\ (PENDING_PAYMENT_SESSION_KEY \in DOMAIN session'
                        <=> PENDING_PAYMENT_SESSION_KEY \in DOMAIN session)
       /\ (/\ Req.op = "checkout" /\ Resp.outcome = Success
           /\ IsStep("payment_verify") /\ OrderMatches /\ SignatureValid)
            => /\ last'.response.outcome = Success
               /\ Len(last'.response.notifications) = 1
               /\ last'.response.notifications[1].total
                    = Decimal(get_pending(session).amount)
               /\ last'.response.notifications[1].payment_id
                    = Field("razorpay_payment_id")
               /\ PendingCleared(session')]_vars

\* a cash-on-delivery order was completed and cleared the cart while the
\* pending record of an earlier online submit is stored: the record is there
C20_Witness ==
    /\ Req.op = "checkout"
    /\ dict_get(Req.POST, "payment_method", "cod") = "cod"
    /\ Resp.outcome = Success
    /\ CartCleared(session)
    /\ DOMAIN get_pending(session) # {}
    /\ get_pending(session).razorpay_order_id \in OrderIds

(***************************************************************************)
(* C21: cart edits between an online submit and its verification.          *)
(***************************************************************************)
\* what the stored cart prices to with the catalog at hand
CartPrice == SumEntries(ActiveEntries(Cart, catalog), Cart, catalog)

\* C21: an add_to_cart or remove_from_cart request leaves the pending record
\* as it was, stored or not; the amount an online checkout submit records is
\* the price of the cart at that submit; and a payment_verify that succeeds
\* notifies and confirms the amount its pending record holds, whatever the
\* cart prices to by then, and stores the cart empty, whatever it holds.
C21_CartEditsKeepPending ==
    [][/\ (IsStep("add_to_cart") \/ IsStep("remove_from_cart"))
            => /\ get_pending(session') = get_pending(session)
               /\ (PENDING_PAYMENT_SESSION_KEY \in DOMAIN session'
                        <=> PENDING_PAYMENT_SESSION_KEY \in DOMAIN session)
       /\ OnlineSubmitStored
            => /\ Decimal(get_pending(session').amount) = CartPrice
               /\ get_pending(session').amount = DecimalStr(CartPrice)
       /\ (IsStep("payment_verify") /\ last'.response.outcome = Success)
            => /\ DecimalStr(last'.response.notifications[1].total)
                    = get_pending(session).amount
               /\ DecimalStr(last'.response.context.total)
                    = get_pending(session).amount
               /\ CartCleared(session')]_vars

\* a product was added while a pending record is stored: the record is still
\* there and holds an amount that is no longer what the cart prices to
C21_Witness ==
    /\ Req.op = "add_to_cart"
    /\ Resp.outcome = "redirect:products"
    /\ DOMAIN get_pending(session) # {}
    /\ Decimal(get_pending(session).amount) < CartPrice
    /\ Cardinality(DOMAIN Cart) = 2

====
